---- MODULE Spec2Model ----
(***************************************************************************)
(* Model of thomasteplick/dijkstrasp, src/src/spmain/sp.go.                *)
(*                                                                         *)
(* One HTTP request to /dijkstrasp runs handleDijkstraSP, which calls in   *)
(* order generateVertices, findDistances, findMST, findSP, plotMST and     *)
(* plotSP.  The state is the fields of PrimMST, DijksraSP and PlotT and    *)
(* the locals of findMST/findSP that live across loop iterations.          *)
(*                                                                         *)
(* Numbers.  Vertex locations are drawn from Sites, a set of points with   *)
(* integer coordinates whose pairwise Euclidean distances are all          *)
(* integers, and the diagonal of Endpoints is an integer too, so that      *)
(* cmplx.Abs is computed exactly by an integer square root.  The grid      *)
(* arithmetic (scale factors, interpolation steps) is carried out in exact *)
(* rational arithmetic, written with integers only.  math.MaxFloat64 is a  *)
(* number larger than every sum of distances the model can form.           *)
(***************************************************************************)
EXTENDS Integers, Sequences, FiniteSets, TLC

\* ------------------------------------------------------------------------
\* Bounds and program constants
\* ------------------------------------------------------------------------
MaxN == 4              \* largest number of vertices drawn by Init

rows == 300            \* sp.go:36
columns == rows        \* sp.go:37
MaxFloat64 == 1000000  \* math.MaxFloat64, the "infinite" distance

\* Candidate vertex locations <<x, y>>.  Four collinear points, one of them
\* on the left border of the graph, and one point on the top border.
Sites == { <<0, 588>>, <<4, 588>>, <<9, 588>>, <<14, 588>>, <<9, 600>> }

\* Euclidean graph endpoints (PrimMST.Endpoints); diagonal 650.
Endpoints == [xmin |-> 0, ymin |-> 0, xmax |-> 250, ymax |-> 600]

\* nil *Edge
Nil == [v |-> -1, w |-> -1]

\* ------------------------------------------------------------------------
\* Arithmetic helpers
\* ------------------------------------------------------------------------
\* the r with lo <= r < hi and r*r <= n < (r+1)*(r+1), by bisection
RECURSIVE ISqrtBetween(_, _, _)
ISqrtBetween(n, lo, hi) ==
    IF hi - lo <= 1 THEN lo
    ELSE LET mid == (lo + hi) \div 2
         IN IF mid * mid <= n THEN ISqrtBetween(n, mid, hi)
            ELSE ISqrtBetween(n, lo, mid)

\* a power of two h with h*h > n
RECURSIVE ISqrtAbove(_, _)
ISqrtAbove(n, h) == IF h * h > n THEN h ELSE ISqrtAbove(n, 2 * h)

\* largest r with r*r <= n
ISqrt(n) == ISqrtBetween(n, 0, ISqrtAbove(n, 1))

\* cmplx.Abs(p - q) for two points
cmplxAbs(p, q) ==
    ISqrt((p[1] - q[1]) * (p[1] - q[1]) + (p[2] - q[2]) * (p[2] - q[2]))

\* ------------------------------------------------------------------------
\* PriorityQueue: map[int]*Item driven by container/heap
\* ------------------------------------------------------------------------
EmptyPQ == [k \in {} |-> Nil]

\* PriorityQueue.Len
pqLen(pq) == Cardinality(DOMAIN pq)

Less(pq, i, j) == pq[i].distance < pq[j].distance

Swap(pq, i, j) ==
    [k \in DOMAIN pq |->
        IF k = i THEN [pq[j] EXCEPT !.index = i]
        ELSE IF k = j THEN [pq[i] EXCEPT !.index = j]
        ELSE pq[k]]

\* PriorityQueue.Push: the item goes to key len(pq)
Push(pq, item) ==
    LET n == pqLen(pq)
    IN [k \in DOMAIN pq \cup {n} |->
            IF k = n THEN [item EXCEPT !.index = n] ELSE pq[k]]

\* PriorityQueue.Pop: removes key len(pq)-1; returns the queue and the item
Pop(pq) ==
    LET n == pqLen(pq)
    IN [pq   |-> [k \in DOMAIN pq \ {n - 1} |-> pq[k]],
        item |-> [pq[n - 1] EXCEPT !.index = -1]]

\* container/heap up(h, j)
RECURSIVE up(_, _)
up(pq, j) ==
    IF j <= 0 THEN pq
    ELSE LET i == (j - 1) \div 2
         IN IF ~Less(pq, j, i) THEN pq ELSE up(Swap(pq, i, j), i)

\* container/heap down(h, i0, n); returns the queue and the final position
RECURSIVE down(_, _, _)
down(pq, i, n) ==
    LET j1 == 2 * i + 1
        j2 == j1 + 1
        j  == IF j2 < n /\ Less(pq, j2, j1) THEN j2 ELSE j1
    IN IF j1 >= n THEN [pq |-> pq, i |-> i]
       ELSE IF ~Less(pq, j, i) THEN [pq |-> pq, i |-> i]
       ELSE down(Swap(pq, i, j), j, n)

\* container/heap Init(h)
RECURSIVE heapInitFrom(_, _)
heapInitFrom(pq, i) ==
    IF i < 0 THEN pq ELSE heapInitFrom(down(pq, i, pqLen(pq)).pq, i - 1)

heapInit(pq) == heapInitFrom(pq, (pqLen(pq) \div 2) - 1)

\* container/heap Push(h, x)
heapPush(pq, item) == up(Push(pq, item), pqLen(pq))

\* container/heap Pop(h)
heapPop(pq) ==
    LET n == pqLen(pq) - 1
    IN Pop(down(Swap(pq, 0, n), 0, n).pq)

\* container/heap Fix(h, i), given d = down(h, i, h.Len())
fixAfterDown(d, i) == IF d.i > i THEN d.pq ELSE up(d.pq, i)

\* container/heap Fix(h, i)
heapFix(pq, i) == fixAfterDown(down(pq, i, pqLen(pq)), i)

\* update without heap.Fix: the distance changes and the item stays where
\* it is
updateNoFix(pq, k, distance) == [pq EXCEPT ![k].distance = distance]

\* PriorityQueue.update(item, distance), item being the one stored at key k
update(pq, k, distance) ==
    heapFix([pq EXCEPT ![k].distance = distance], pq[k].index)

\* ------------------------------------------------------------------------
\* State
\* ------------------------------------------------------------------------
VARIABLES
    pc,        \* position in handleDijkstraSP
    fault,     \* run-time panic raised by the handler, "none" if none
    location,  \* PrimMST.location: vertex -> point
    graph,     \* PrimMST.graph: distance matrix
    mst,       \* PrimMST.mst: slot -> Edge (the Edge objects are shared with
               \* DijksraSP.adj and DijksraSP.edgeTo, which hold slot numbers)
    marked,    \* findMST local
    distTo,    \* findMST local
    pq,        \* the priority queue of findMST, then of findSP
    pops,      \* history: vertices popped by findMST's main loop, in order
    request,   \* the form values sourcevert and targetvert of the request,
               \* recorded when findSP reads them
    source,    \* DijksraSP.source
    target,    \* DijksraSP.target
    adj,       \* DijksraSP.adj: vertex -> sequence of slots
    edgeTo,    \* DijksraSP.edgeTo: vertex -> slot, 0 for nil
    dspDistTo, \* DijksraSP.distTo
    status,    \* handleDijkstraSP status: accumulated error messages
    plot       \* PlotT

vars == <<pc, fault, location, graph, mst, marked, distTo, pq, pops, request,
          source, target, adj, edgeTo, dspDistTo, status, plot>>

N == Len(location)
Verts == 0 .. N - 1

\* a Go slice indexed from 0, as a function
EmptySlice == [i \in {} |-> 0]

\* the zero PlotT; Grid maps the cells written so far to their label,
\* every other cell holds the empty string
ZeroPlot ==
    [Grid |-> [c \in {} |-> ""], Status |-> "", Xlabel |-> <<>>,
     Ylabel |-> <<>>, Distance |-> "", Vertices |-> "", Xmin |-> "",
     Xmax |-> "", Ymin |-> "", Ymax |-> "", StartLocation |-> "",
     SourceLocation |-> "", TargetLocation |-> "", Source |-> "",
     Target |-> "", DistanceSP |-> ""]

\* generateVertices has run: any number of vertices up to MaxN, anywhere on
\* Sites (coincident vertices included)
Init ==
    /\ pc = "findDistances"
    /\ fault = "none"
    /\ \E n \in 0 .. MaxN : location \in [1 .. n -> Sites]
    /\ graph = EmptySlice
    /\ mst = EmptySlice
    /\ marked = EmptySlice
    /\ distTo = EmptySlice
    /\ pq = EmptyPQ
    /\ pops = <<>>
    /\ request = [sourcevert |-> "", targetvert |-> ""]
    /\ source = 0
    /\ target = 0
    /\ adj = EmptySlice
    /\ edgeTo = EmptySlice
    /\ dspDistTo = EmptySlice
    /\ status = <<>>
    /\ plot = ZeroPlot

\* the point of vertex v (location is a 1-based sequence, vertices count from 0)
loc(v) == location[v + 1]

\* ------------------------------------------------------------------------
\* findDistances
\* ------------------------------------------------------------------------
\* findDistances without its last loop: the diagonal keeps the zero value
DistancesZeroDiagonal(l) ==
    [i \in 0 .. Len(l) - 1 |->
        [j \in 0 .. Len(l) - 1 |->
            IF i = j THEN 0 ELSE cmplxAbs(l[i + 1], l[j + 1])]]

\* findDistances: the matrix built from the locations l
Distances(l) ==
    [i \in 0 .. Len(l) - 1 |->
        [j \in 0 .. Len(l) - 1 |->
            IF i = j THEN MaxFloat64 ELSE cmplxAbs(l[i + 1], l[j + 1])]]

FindDistances ==
    /\ pc = "findDistances"
    /\ graph' = Distances(location)
    /\ pc' = "findMST"
    /\ UNCHANGED <<fault, location, mst, marked, distTo, pq, pops, request,
                   source, target, adj, edgeTo, dspDistTo, status, plot>>

\* ------------------------------------------------------------------------
\* findMST
\* ------------------------------------------------------------------------
\* visit's loop body without the test of marked[w]: an edge to a vertex
\* already in the tree may replace that vertex's slot
visitStepUnmarked(st, g, v, w) ==
    IF g[v][w] < st.distTo[w]
    THEN [st EXCEPT
            !.mst[w] = [v |-> v, w |-> w],
            !.distTo[w] = g[v][w],
            !.pq = IF w \in DOMAIN st.pq
                   THEN update(st.pq, w, g[v][w])
                   ELSE heapPush(st.pq, [v |-> v, w |-> w, index |-> 0,
                                         distance |-> g[v][w]])]
    ELSE st

\* the body of visit's loop for one w; st = [mst, marked, distTo, pq]
visitStep(st, g, v, w) ==
    IF st.marked[w] THEN st
    ELSE IF g[v][w] < st.distTo[w]
    THEN [st EXCEPT
            !.mst[w] = [v |-> v, w |-> w],
            !.distTo[w] = g[v][w],
            !.pq = IF w \in DOMAIN st.pq
                   THEN update(st.pq, w, g[v][w])
                   ELSE heapPush(st.pq, [v |-> v, w |-> w, index |-> 0,
                                         distance |-> g[v][w]])]
    ELSE st

RECURSIVE visitFrom(_, _, _, _)
visitFrom(st, g, v, w) ==
    IF w \notin DOMAIN g[v] THEN st
    ELSE visitFrom(visitStep(st, g, v, w), g, v, w + 1)

\* visit's loop stopped before it handles vertex k: the state after the
\* iterations for w, w + 1, ..., k - 1
RECURSIVE visitUpTo(_, _, _, _, _)
visitUpTo(st, g, v, w, k) ==
    IF w >= k \/ w \notin DOMAIN g[v] THEN st
    ELSE visitUpTo(visitStep(st, g, v, w), g, v, w + 1, k)

\* visit(v) without the assignment marked[v] = true
visitUnmarking(st, g, v) == visitFrom(st, g, v, 0)

\* visit(v)
visit(st, g, v) == visitFrom([st EXCEPT !.marked[v] = TRUE], g, v, 0)

\* findMST up to heap.Init, for n > 0 vertices; st = [mst, marked, distTo, pq]
findMSTInit(n) ==
    [mst    |-> [i \in 0 .. n - 1 |-> Nil],
     marked |-> [i \in 0 .. n - 1 |-> FALSE],
     distTo |-> [i \in 0 .. n - 1 |-> MaxFloat64],
     pq     |-> heapInit(0 :> [v |-> 0, w |-> 0, index |-> 0,
                               distance |-> MaxFloat64])]

\* the body of findMST's main loop, p being the result of heap.Pop
visitPopped(p, st, g) == visit([st EXCEPT !.pq = p.pq], g, p.item.w)

\* one iteration of findMST's main loop
mstIterate(st, g) == visitPopped(heapPop(st.pq), st, g)

RECURSIVE findMSTLoop(_, _)
findMSTLoop(st, g) ==
    IF pqLen(st.pq) = 0 THEN st ELSE findMSTLoop(mstIterate(st, g), g)

\* findMST run to its return on the distance matrix g of one or more
\* vertices: the tree
findMSTRun(g) == findMSTLoop(findMSTInit(Cardinality(DOMAIN g)), g).mst

\* a call of findMST that wrongly keeps the marks of the previous call
findMSTFreshKeepsMarked(prev, n) ==
    [findMSTInit(n) EXCEPT !.marked = prev.marked]

\* the start of a further call of findMST on a PrimMST whose previous call
\* left prev = [mst, marked, distTo, pq]: the tree, the marks, the distances
\* and the queue are all made anew, nothing of prev is read
findMSTFresh(prev, n) == findMSTInit(n)

\* a further call of findMST on the same distance matrix g, run to its
\* return: the tree
findMSTAgain(prev, g) ==
    findMSTLoop(findMSTFresh(prev, Cardinality(DOMAIN g)), g).mst

\* findMST up to heap.Init; vertices = 0 faults on distTo[0]
FindMSTBegin ==
    /\ pc = "findMST"
    /\ IF N = 0
       THEN /\ fault' = "findMST: index out of range"
            /\ pc' = "panic"
            /\ mst' = EmptySlice
            /\ marked' = EmptySlice
            /\ distTo' = EmptySlice
            /\ pq' = EmptyPQ
       ELSE \E st \in {findMSTInit(N)} :
               /\ fault' = fault
               /\ pc' = "mstLoop"
               /\ mst' = st.mst
               /\ marked' = st.marked
               /\ distTo' = st.distTo
               /\ pq' = st.pq
    /\ UNCHANGED <<location, graph, pops, request, source, target, adj, edgeTo,
                   dspDistTo, status, plot>>

\* one iteration of findMST's main loop: heap.Pop, then visit
MSTIterate ==
    /\ pc = "mstLoop"
    /\ pqLen(pq) > 0
    /\ \E st \in {mstIterate([mst |-> mst, marked |-> marked,
                               distTo |-> distTo, pq |-> pq], graph)} :
          /\ mst' = st.mst
          /\ marked' = st.marked
          /\ distTo' = st.distTo
          /\ pq' = st.pq
    /\ pops' = Append(pops, heapPop(pq).item.w)
    /\ UNCHANGED <<pc, fault, location, graph, request, source, target, adj, edgeTo,
                   dspDistTo, status, plot>>

\* the queue is empty: findMST returns
MSTReturn ==
    /\ pc = "mstLoop"
    /\ pqLen(pq) = 0
    /\ pc' = "findSP"
    /\ UNCHANGED <<fault, location, graph, mst, marked, distTo, pq, pops,
                   request, source, target, adj, edgeTo, dspDistTo, status, plot>>

\* ------------------------------------------------------------------------
\* findSP
\* ------------------------------------------------------------------------
\* the values the form fields sourcevert and targetvert may carry: not set,
\* not a number, or a decimal integer from -1 to the number of vertices
FormValues == {"", "x"} \cup {ToString(k) : k \in -1 .. N}

\* strconv.Atoi on the form values above
Atoi(str) ==
    IF \E k \in -1 .. N : ToString(k) = str
    THEN [val |-> CHOOSE k \in -1 .. N : ToString(k) = str, err |-> ""]
    ELSE [val |-> 0,
          err |-> "strconv.Atoi: parsing \"" \o str \o "\": invalid syntax"]

\* the endpoint check with its upper limit off by one: the last vertex is
\* refused
InvalidEndpointsOffByOne(s, t, vertices) ==
    s = t \/ s < 0 \/ t < 0 \/ s >= vertices - 1 \/ t >= vertices - 1

\* the endpoint check of findSP
InvalidEndpoints(s, t, vertices) ==
    s = t \/ s < 0 \/ t < 0 \/ s > vertices - 1 \/ t > vertices - 1

\* the adjacency list: every edge of mst[1:] is appended to the list of its
\* v endpoint, then to the list of its w endpoint
RECURSIVE adjFrom(_, _, _)
adjFrom(a, m, slot) ==
    IF slot \notin DOMAIN m THEN a
    ELSE adjFrom([[a EXCEPT ![m[slot].v] = Append(@, slot)]
                     EXCEPT ![m[slot].w] = Append(@, slot)], m, slot + 1)

Adjacency(m) == adjFrom([i \in DOMAIN m |-> <<>>], m, 1)

\* relax's loop body storing the weight of the edge alone in distTo[w],
\* without the distance to v
relaxStepEdgeOnly(st, g, v, e) ==
    LET flip == st.mst[e].w = v
        w    == IF flip THEN st.mst[e].v ELSE st.mst[e].w
        m    == IF flip
                THEN [st.mst EXCEPT ![e] = [v |-> st.mst[e].w, w |-> st.mst[e].v]]
                ELSE st.mst
        newDistance == st.distTo[v] + g[v][w]
    IN IF st.distTo[w] > newDistance
       THEN [st EXCEPT
               !.mst = m,
               !.edgeTo[w] = e,
               !.distTo[w] = g[v][w],
               !.pq = IF w \in DOMAIN st.pq
                      THEN update(st.pq, w, newDistance)
                      ELSE heapPush(st.pq, [v |-> v, w |-> w, index |-> 0,
                                            distance |-> newDistance])]
       ELSE [st EXCEPT !.mst = m]

\* the body of relax's loop for the edge in slot e;
\* st = [mst, edgeTo, distTo, pq, returned]
relaxStep(st, g, v, e) ==
    LET flip == st.mst[e].w = v
        w    == IF flip THEN st.mst[e].v ELSE st.mst[e].w
        m    == IF flip
                THEN [st.mst EXCEPT ![e] = [v |-> st.mst[e].w, w |-> st.mst[e].v]]
                ELSE st.mst
        newDistance == st.distTo[v] + g[v][w]
    IN IF st.distTo[w] > newDistance
       THEN [st EXCEPT
               !.mst = m,
               !.edgeTo[w] = e,
               !.distTo[w] = newDistance,
               !.pq = IF w \in DOMAIN st.pq
                      THEN update(st.pq, w, newDistance)
                      ELSE heapPush(st.pq, [v |-> v, w |-> w, index |-> 0,
                                            distance |-> newDistance])]
       ELSE [st EXCEPT !.mst = m]

RECURSIVE relaxFrom(_, _, _, _, _)
relaxFrom(st, g, a, v, k) ==
    IF k > Len(a[v]) THEN st
    ELSE relaxFrom(relaxStep(st, g, v, a[v][k]), g, a, v, k + 1)

\* relax's loop stopped after the first n edges of adj[v]
RECURSIVE relaxUpTo(_, _, _, _, _, _)
relaxUpTo(st, g, a, v, k, n) ==
    IF k > n \/ k > Len(a[v]) THEN st
    ELSE relaxUpTo(relaxStep(st, g, v, a[v][k]), g, a, v, k + 1, n)

\* relax(v)
relax(st, g, a, v) == relaxFrom(st, g, a, v, 1)

\* the inner loop that empties the queue once the target is popped
RECURSIVE drain(_)
drain(q) == IF pqLen(q) > 0 THEN drain(heapPop(q).pq) ELSE q

\* findSP from the endpoint check up to heap.Init, for valid endpoints
findSPInit(m, s) ==
    [mst      |-> m,
     edgeTo   |-> [i \in DOMAIN m |-> 0],
     distTo   |-> [[i \in DOMAIN m |-> MaxFloat64] EXCEPT ![s] = 0],
     pq       |-> heapInit(0 :> [v |-> s, w |-> s, index |-> 0, distance |-> 0]),
     returned |-> FALSE]

\* the loop body without the early return: the target is relaxed like any
\* other vertex before the queue is emptied
relaxPoppedThenTarget(p, st, g, a, tgt) ==
    IF p.item.w = tgt
    THEN [relax([st EXCEPT !.pq = p.pq], g, a, p.item.w)
             EXCEPT !.pq = EmptyPQ, !.returned = TRUE]
    ELSE relax([st EXCEPT !.pq = p.pq], g, a, p.item.w)

\* the body of findSP's main loop, p being the result of heap.Pop
relaxPopped(p, st, g, a, tgt) ==
    IF p.item.w = tgt
    THEN [st EXCEPT !.pq = drain(p.pq), !.returned = TRUE]
    ELSE relax([st EXCEPT !.pq = p.pq], g, a, p.item.w)

\* one iteration of findSP's main loop
spIterate(st, g, a, tgt) == relaxPopped(heapPop(st.pq), st, g, a, tgt)

RECURSIVE findSPLoop(_, _, _, _)
findSPLoop(st, g, a, tgt) ==
    IF st.returned \/ pqLen(st.pq) = 0 THEN st
    ELSE findSPLoop(spIterate(st, g, a, tgt), g, a, tgt)

\* findSP run to its return for valid endpoints s, t on the tree m
findSPRun(m, g, s, t) == findSPLoop(findSPInit(m, s), g, Adjacency(m), t)

\* findSP up to heap.Init, with the form values of the request
FindSPBegin ==
    /\ pc = "findSP"
    /\ \E sourceVert \in FormValues, targetVert \in FormValues :
        /\ request' = [sourcevert |-> sourceVert, targetvert |-> targetVert]
        /\ LET s == Atoi(sourceVert)
               t == Atoi(targetVert)
           IN IF sourceVert = "" \/ targetVert = ""
              THEN /\ status' = Append(status, "source and/or target vertices not set")
                   /\ pc' = "plotMST"
                   /\ UNCHANGED <<source, target, adj, edgeTo, dspDistTo, pq>>
              ELSE IF s.err # ""
              THEN /\ source' = s.val
                   /\ status' = Append(status, s.err)
                   /\ pc' = "plotMST"
                   /\ UNCHANGED <<target, adj, edgeTo, dspDistTo, pq>>
              ELSE IF t.err # ""
              THEN /\ source' = s.val
                   /\ target' = t.val
                   /\ status' = Append(status, t.err)
                   /\ pc' = "plotMST"
                   /\ UNCHANGED <<adj, edgeTo, dspDistTo, pq>>
              ELSE IF InvalidEndpoints(s.val, t.val, N)
              THEN /\ source' = s.val
                   /\ target' = t.val
                   /\ status' = Append(status, "source and/or target vertices are invalid")
                   /\ pc' = "plotMST"
                   /\ UNCHANGED <<adj, edgeTo, dspDistTo, pq>>
              ELSE \E st \in {findSPInit(mst, s.val)} :
                   /\ source' = s.val
                   /\ target' = t.val
                   /\ edgeTo' = st.edgeTo
                   /\ dspDistTo' = st.distTo
                   /\ adj' = Adjacency(mst)
                   /\ pq' = st.pq
                   /\ pc' = "spLoop"
                   /\ status' = status
    /\ UNCHANGED <<fault, location, graph, mst, marked, distTo, pops, plot>>

\* one iteration of findSP's main loop: heap.Pop, then either the target was
\* popped (the queue is emptied and findSP returns) or the vertex is relaxed
SPIterate ==
    /\ pc = "spLoop"
    /\ pqLen(pq) > 0
    /\ \E st \in {spIterate([mst |-> mst, edgeTo |-> edgeTo,
                              distTo |-> dspDistTo, pq |-> pq,
                              returned |-> FALSE], graph, adj, target)} :
          /\ mst' = st.mst
          /\ edgeTo' = st.edgeTo
          /\ dspDistTo' = st.distTo
          /\ pq' = st.pq
          /\ pc' = IF st.returned THEN "plotMST" ELSE pc
    /\ UNCHANGED <<fault, location, graph, marked, distTo, pops, request,
                   source, target, adj, status, plot>>

\* the queue is empty and the target was never popped: findSP returns nil
SPReturn ==
    /\ pc = "spLoop"
    /\ pqLen(pq) = 0
    /\ pc' = "plotMST"
    /\ UNCHANGED <<fault, location, graph, mst, marked, distTo, pq, pops,
                   request, source, target, adj, edgeTo, dspDistTo, status, plot>>

\* ------------------------------------------------------------------------
\* Rasterization: plotMST and plotSP
\* ------------------------------------------------------------------------
xlabels == 11
ylabels == 11

deltaEPX == Endpoints.xmax - Endpoints.xmin
deltaEPY == Endpoints.ymax - Endpoints.ymin

\* lenEP, the length of the diagonal of the Euclidean graph
lenEP == cmplxAbs(<<Endpoints.xmax, Endpoints.ymax>>,
                  <<Endpoints.xmin, Endpoints.ymin>>)

\* Go's int(x) for the rational a/b, b > 0: truncation toward zero
truncDiv(a, b) == IF a >= 0 THEN a \div b ELSE -((-a) \div b)

\* row := int((ymax-y)*yscale + .5) for y = ynum/den, yscale = (rows-1)/(ymax-ymin)
rowOf(ynum, den) ==
    truncDiv(2 * (Endpoints.ymax * den - ynum) * (rows - 1) + den * deltaEPY,
             2 * den * deltaEPY)

\* col := int((x-xmin)*xscale + .5) for x = xnum/den, xscale = (columns-1)/(xmax-xmin)
colOf(xnum, den) ==
    truncDiv(2 * (xnum - Endpoints.xmin * den) * (columns - 1) + den * deltaEPX,
             2 * den * deltaEPX)

\* the index row*columns+col into Grid
cellIndex(row, col) == row * columns + col

\* the Grid index of a point
pointCell(p) == cellIndex(rowOf(p[2], 1), colOf(p[1], 1))

\* ncells := int(columns * lenEdge / lenEP)
ncellsOf(p, q) == (columns * cmplxAbs(p, q)) \div lenEP

\* the Grid indexes of the samples of the edge drawn from p to q: sample i
\* is p + i*(q-p)/ncells, i = 0 .. ncells-1
sampleCells(p, q) ==
    LET ncells == ncellsOf(p, q)
    IN { cellIndex(rowOf(p[2] * ncells + i * (q[2] - p[2]), ncells),
                   colOf(p[1] * ncells + i * (q[1] - p[1]), ncells)) :
            i \in 0 .. ncells - 1 }

\* Grid[idx] = label for every idx of S; an index outside the array panics.
\* gs = [Grid, fault]; nothing is written after a panic
writeCells(gs, S, label) ==
    IF gs.fault THEN gs
    ELSE IF \E idx \in S : idx < 0 \/ idx >= rows * columns
    THEN [gs EXCEPT !.fault = TRUE]
    ELSE [gs EXCEPT !.Grid = [c \in DOMAIN gs.Grid \cup S |->
                                 IF c \in S THEN label ELSE gs.Grid[c]]]

\* the five writes that mark a start, source or target vertex
highlight(gs, row, col, label) ==
    writeCells(
      writeCells(
        writeCells(
          writeCells(
            writeCells(gs, {row * columns + col}, label),
            {(row + 1) * columns + col}, label),
          {(row - 1) * columns + col}, label),
        {row * columns + col + 1}, label),
      {row * columns + col - 1}, label)

\* one edge of the MST or of the shortest path: the samples, then vertex v,
\* then vertex w
drawEdge(gs, p, q, label) ==
    writeCells(writeCells(writeCells(gs, sampleCells(p, q), label),
                          {pointCell(p)}, "vertex"),
               {pointCell(q)}, "vertex")

\* fmt.Sprintf("%.2f", num/den) for num/den >= 0
Fmt2(num, den) ==
    LET cents == (200 * num + den) \div (2 * den)
        frac  == cents % 100
    IN ToString(cents \div 100) \o "." \o
       (IF frac < 10 THEN "0" ELSE "") \o ToString(frac)

\* fmt.Sprintf("(%.2f, %.2f)", x, y) for a point
FmtPoint(p) == "(" \o Fmt2(p[1], 1) \o ", " \o Fmt2(p[2], 1) \o ")"

\* strings.Join(a, ", ")
RECURSIVE Join(_)
Join(a) ==
    IF Len(a) = 0 THEN ""
    ELSE IF Len(a) = 1 THEN a[1]
    ELSE a[1] \o ", " \o Join(Tail(a))

\* the loop of plotMST over mst[1:]; ms = [gs, distance]
RECURSIVE plotEdgesFrom(_, _, _, _)
plotEdgesFrom(ms, m, l, slot) ==
    IF slot \notin DOMAIN m THEN ms
    ELSE plotEdgesFrom(
            [gs |-> drawEdge(ms.gs, l[m[slot].v + 1], l[m[slot].w + 1], "edge"),
             distance |-> ms.distance + cmplxAbs(l[m[slot].v + 1], l[m[slot].w + 1])],
            m, l, slot + 1)

\* the rest of plotMST once the start vertex is marked (hs): the labels, the
\* distance and the endpoints; they are not reached after a panic
plotMSTFields(hs, distance, l) ==
    IF hs.fault
    THEN [ZeroPlot EXCEPT !.Grid = hs.Grid,
                          !.Xlabel = [i \in 1 .. xlabels |-> ""],
                          !.Ylabel = [i \in 1 .. ylabels |-> ""],
                          !.StartLocation = FmtPoint(l[1])]
    ELSE [ZeroPlot EXCEPT
            !.Grid = hs.Grid,
            !.StartLocation = FmtPoint(l[1]),
            !.Xlabel = [i \in 1 .. xlabels |->
                Fmt2(Endpoints.xmin * (xlabels - 1) + (i - 1) * deltaEPX,
                     xlabels - 1)],
            !.Ylabel = [i \in 1 .. ylabels |->
                Fmt2(Endpoints.ymin * (ylabels - 1) + (i - 1) * deltaEPY,
                     ylabels - 1)],
            !.Distance = Fmt2(distance, 1),
            !.Vertices = ToString(Len(l)),
            !.Xmin = Fmt2(Endpoints.xmin, 1),
            !.Xmax = Fmt2(Endpoints.xmax, 1),
            !.Ymin = Fmt2(Endpoints.ymin, 1),
            !.Ymax = Fmt2(Endpoints.ymax, 1)]

\* plotMST after its loop over the edges (ms): the start vertex is marked
plotMSTStart(ms, l) ==
    plotMSTFields(highlight(ms.gs, rowOf(l[1][2], 1), colOf(l[1][1], 1),
                            "startvertexMSS"),
                  ms.distance, l)

\* plotMST: the plot it builds; the plot's Vertices stays empty exactly when
\* a Grid write panicked
plotMSTResult(m, l) ==
    plotMSTStart(plotEdgesFrom([gs |-> [Grid |-> ZeroPlot.Grid, fault |-> FALSE],
                                distance |-> 0], m, l, 1), l)

\* plotMST; with no vertex at all the slice p.mst[1:] panics
PlotMST ==
    /\ pc = "plotMST"
    /\ IF N = 0
       THEN /\ fault' = "plotMST: slice bounds out of range"
            /\ pc' = "panic"
            /\ plot' = plot
       ELSE \E r \in {plotMSTResult(mst, location)} :
               /\ plot' = r
               /\ fault' = IF r.Vertices = "" THEN "plotMST: index out of range"
                           ELSE fault
               /\ pc' = IF r.Vertices = "" THEN "panic" ELSE "plotSP"
    /\ UNCHANGED <<location, graph, mst, marked, distTo, pq, pops, request,
                   source, target, adj, edgeTo, dspDistTo, status>>

\* one pass of plotSP's loop body up to the test for the source, for the edge
\* in slot e; ws = [mst, gs, distance, firstEdge, nilEdge]
spDraw(ws, l, e) ==
    [ws EXCEPT
       !.gs = drawEdge(ws.gs, l[ws.mst[e].v + 1], l[ws.mst[e].w + 1], "edgeSP"),
       !.distance = @ + cmplxAbs(l[ws.mst[e].w + 1], l[ws.mst[e].v + 1])]

\* "move forward to the next edge": e = edgeTo[v], turned so that e.w = v
spTurn(ws, e2, v) ==
    IF ws.mst[e2].w # v
    THEN [ws EXCEPT !.mst[e2] = [v |-> ws.mst[e2].w, w |-> ws.mst[e2].v]]
    ELSE ws

\* the loop of plotSP that walks edgeTo from the target back to the source;
\* e is the slot of the current edge, 0 for a nil edge
RECURSIVE spWalk(_, _, _, _, _)
spWalk(ws, l, et, src, e) ==
    IF e = 0 THEN [ws EXCEPT !.nilEdge = TRUE]
    ELSE IF ws.mst[e].v = src THEN [spDraw(ws, l, e) EXCEPT !.firstEdge = e]
    ELSE IF et[ws.mst[e].v] = 0 THEN [spDraw(ws, l, e) EXCEPT !.nilEdge = TRUE]
    ELSE spWalk(spTurn(spDraw(ws, l, e), et[ws.mst[e].v], ws.mst[e].v),
                l, et, src, et[ws.mst[e].v])

\* the end of plotSP: ws is the walk, ts the grid after the target vertex
\* is marked, ss the grid after the source vertex is marked
plotSPFields(ws, ts, ss, l, tv, sv, pl) ==
    IF ts.fault
    THEN [fault |-> "plotSP: index out of range", mst |-> ws.mst,
          plot |-> [pl EXCEPT !.Grid = ts.Grid]]
    ELSE IF ss.fault
    THEN [fault |-> "plotSP: index out of range", mst |-> ws.mst,
          plot |-> [pl EXCEPT !.Grid = ss.Grid,
                              !.TargetLocation = FmtPoint(l[tv + 1]),
                              !.Target = ToString(tv)]]
    ELSE [fault |-> "none", mst |-> ws.mst,
          plot |-> [pl EXCEPT !.Grid = ss.Grid,
                              !.TargetLocation = FmtPoint(l[tv + 1]),
                              !.Target = ToString(tv),
                              !.SourceLocation = FmtPoint(l[sv + 1]),
                              !.Source = ToString(sv),
                              !.DistanceSP = Fmt2(ws.distance, 1)]]

\* plotSP after the target vertex tv = edgeTo[target].w is marked (ts): the
\* source vertex sv = firstEdge.v is marked
plotSPSource(ws, ts, l, tv, sv, pl) ==
    plotSPFields(ws, ts,
                 highlight(ts, rowOf(l[sv + 1][2], 1), colOf(l[sv + 1][1], 1),
                           "vertexSP1"),
                 l, tv, sv, pl)

\* plotSP after its loop (ws): the target vertex is marked
plotSPTarget(ws, l, tv, pl) ==
    IF ws.nilEdge
    THEN [fault |-> "plotSP: nil pointer dereference", mst |-> ws.mst,
          plot |-> [pl EXCEPT !.Grid = ws.gs.Grid]]
    ELSE plotSPSource(ws,
                      highlight(ws.gs, rowOf(l[tv + 1][2], 1),
                                colOf(l[tv + 1][1], 1), "vertexSP2"),
                      l, tv, ws.mst[ws.firstEdge].v, pl)

\* plotSP after its loop (ws)
plotSPEnd(ws, l, et, tgt, pl) ==
    plotSPTarget(ws, l, IF et[tgt] = 0 THEN 0 ELSE ws.mst[et[tgt]].w, pl)

\* plotSP past its first check: the edge objects, the plot, the fault
plotSPResult(m, l, et, src, tgt, pl) ==
    plotSPEnd(spWalk([mst |-> m, gs |-> [Grid |-> pl.Grid, fault |-> FALSE],
                      distance |-> 0, firstEdge |-> 0, nilEdge |-> FALSE],
                     l, et, src, et[tgt]),
              l, et, tgt, pl)

\* plotSP's first check without the test of the sentinel
notFoundEmptyOnly(dt, tgt) == DOMAIN dt = {}

\* plotSP's first check: was the target found by findSP
notFound(dt, tgt) == DOMAIN dt = {} \/ dt[tgt] = MaxFloat64

\* the error of plotSP's first check
NotFound(tgt) == "distance to vertex " \o ToString(tgt) \o " not found"

\* the Status line set by handleDijkstraSP
StatusLine(st) ==
    IF Len(st) > 0 THEN Join(st)
    ELSE "Enter Source and Target Vertices (0-V-1) for another SP"

\* plotSP, then the rest of handleDijkstraSP: the status line and the
\* execution of the template
PlotSP ==
    /\ pc = "plotSP"
    /\ IF notFound(dspDistTo, target)
       THEN /\ status' = Append(status, NotFound(target))
            /\ plot' = [plot EXCEPT !.Status = StatusLine(status')]
            /\ pc' = "done"
            /\ UNCHANGED <<fault, mst>>
       ELSE \E r \in {plotSPResult(mst, location, edgeTo, source, target, plot)} :
               /\ mst' = r.mst
               /\ fault' = r.fault
               /\ status' = status
               /\ IF r.fault = "none"
                  THEN /\ plot' = [r.plot EXCEPT !.Status = StatusLine(status)]
                       /\ pc' = "done"
                  ELSE /\ plot' = r.plot
                       /\ pc' = "panic"
    /\ UNCHANGED <<location, graph, marked, distTo, pq, pops, request, source,
                   target, adj, edgeTo, dspDistTo>>

Next ==
    \/ FindDistances
    \/ FindMSTBegin
    \/ MSTIterate
    \/ MSTReturn
    \/ FindSPBegin
    \/ SPIterate
    \/ SPReturn
    \/ PlotMST
    \/ PlotSP

Spec == Init /\ [][Next]_vars

\* MSTIterate can be taken exactly when the guard of findMST's main loop
\* holds: the step it takes always changes pops
MSTIterateEnabled == pc = "mstLoop" /\ pqLen(pq) > 0

\* findMST runs on the handler's goroutine without waiting for anything: an
\* iteration of its main loop, or its return, that can be taken is taken.
\* The weak fairness of MSTIterate is written out, with MSTIterateEnabled
\* for ENABLED <<MSTIterate>>_vars
FairSpec ==
    /\ Spec
    /\ WF_vars(MSTReturn)
    /\ ([]<>(~MSTIterateEnabled) \/ []<><<MSTIterate>>_vars)

\* ------------------------------------------------------------------------
\* Reference definitions used by the properties
\* ------------------------------------------------------------------------
\* the sum of f[x] over the x of S
RECURSIVE SumOver(_, _)
SumOver(S, f) ==
    IF S = {} THEN 0
    ELSE LET x == CHOOSE y \in S : TRUE IN f[x] + SumOver(S \ {x}, f)

\* findMST has returned and findSP has not started
AfterFindMST == pc = "findSP"

\* the endpoint of the edge x that is not u
otherEnd(x, u) == IF x.v = u THEN x.w ELSE x.v

\* the edges of the tree m as sets of endpoints
treeEdges(m) == { {m[w].v, m[w].w} : w \in DOMAIN m \ {0} }

\* the vertices reachable from the set R over the edges E
RECURSIVE reachable(_, _)
reachable(R, E) ==
    LET R2 == R \cup { u \in UNION E : \E x \in E : u \in x /\ x \cap R # {} }
    IN IF R2 = R THEN R ELSE reachable(R2, E)

\* every parent assignment f: 1..n-1 -> 0..n-1 that is a spanning tree of the
\* complete graph rooted at 0 (every spanning tree is one of them)
spanningTrees(n) ==
    { f \in [1 .. n - 1 -> 0 .. n - 1] :
        reachable({0}, { {w, f[w]} : w \in 1 .. n - 1 }) = 0 .. n - 1 }

\* total weight of the parent assignment f
parentWeight(f, g) == SumOver(DOMAIN f, [w \in DOMAIN f |-> g[w][f[w]]])

\* total weight of the edges in slots 1.. of the tree m
mstWeight(m, g) ==
    SumOver(DOMAIN m \ {0}, [w \in DOMAIN m \ {0} |-> g[m[w].v][m[w].w]])

PositiveWeights == \A i, j \in Verts : i # j => graph[i][j] > 0

\* findSP has returned
AfterFindSP == pc \in {"plotMST", "plotSP", "done"}

\* findSP passed its endpoint check and ran the relaxation
QueryRan == DOMAIN dspDistTo # {}

\* the elements of a sequence
Range(a) == { a[k] : k \in DOMAIN a }

Reverse(a) == [k \in 1 .. Len(a) |-> a[Len(a) + 1 - k]]

\* the parent of vertex w >= 1 in the tree m: the other end of the edge in slot w
parentOf(m, w) == otherEnd(m[w], w)

\* the vertices from w up to the root 0 over the parent slots
RECURSIVE rootPath(_, _)
rootPath(m, w) == IF w = 0 THEN <<0>> ELSE <<w>> \o rootPath(m, parentOf(m, w))

\* the sum of the distance-matrix weights along a vertex sequence
RECURSIVE pathWeight(_, _)
pathWeight(a, g) ==
    IF Len(a) <= 1 THEN 0 ELSE g[a[1]][a[2]] + pathWeight(Tail(a), g)

\* the number of trailing elements two root paths share
RECURSIVE commonSuffix(_, _)
commonSuffix(a, b) ==
    IF Len(a) = 0 \/ Len(b) = 0 \/ a[Len(a)] # b[Len(b)] THEN 0
    ELSE 1 + commonSuffix(SubSeq(a, 1, Len(a) - 1), SubSeq(b, 1, Len(b) - 1))

\* the simple path from s to t in the tree m: s up to the lowest common
\* ancestor, then down to t
treePath(m, s, t) ==
    LET ps == rootPath(m, s)
        pt == rootPath(m, t)
        k  == commonSuffix(ps, pt)
    IN SubSeq(ps, 1, Len(ps) - k + 1) \o Reverse(SubSeq(pt, 1, Len(pt) - k))

\* the length of that path from the two walks to the root: the common part
\* (from the lowest common ancestor up) is removed from both
rootWalkLength(m, g, s, t) ==
    LET ps == rootPath(m, s)
        pt == rootPath(m, t)
        k  == commonSuffix(ps, pt)
    IN pathWeight(SubSeq(ps, 1, Len(ps) - k + 1), g)
       + pathWeight(SubSeq(pt, 1, Len(pt) - k + 1), g)

\* the vertices met walking edgeTo backward from u to src, as plotSP walks
\* them; the walk stops at a nil edge
RECURSIVE edgeChain(_, _, _, _)
edgeChain(m, et, src, u) ==
    IF u = src \/ et[u] = 0 THEN <<u>>
    ELSE <<u>> \o edgeChain(m, et, src, otherEnd(m[et[u]], u))

\* the Grid indexes of the plus-shaped neighbourhood of point p that lie
\* inside the grid
plusCells(p) ==
    LET row == rowOf(p[2], 1)
        col == colOf(p[1], 1)
    IN { cellIndex(rc[1], rc[2]) :
           rc \in { x \in { <<row, col>>, <<row + 1, col>>, <<row - 1, col>>,
                           <<row, col + 1>>, <<row, col - 1>> } :
                       /\ x[1] >= 0 /\ x[1] < rows
                       /\ x[2] >= 0 /\ x[2] < columns } }

InvalidMessage == "source and/or target vertices are invalid"

\* ------------------------------------------------------------------------
\* Properties
\* ------------------------------------------------------------------------

\* C1: for N >= 2 points with positive pairwise distances, the tree findMST
\* leaves in mst[1..N-1] weighs no more than any spanning tree of the
\* complete graph on the points.
C1_MinimumSpanningTree ==
    (AfterFindMST /\ N >= 2 /\ PositiveWeights) =>
        \A f \in spanningTrees(N) : mstWeight(mst, graph) <= parentWeight(f, graph)

\* C5: after findMST on N >= 2 points slot 0 holds no edge, every slot w in
\* 1..N-1 holds an edge {v, w} with v # w, the N-1 edges are distinct, and
\* from every vertex all N vertices are reached over them (a connected graph
\* on N vertices with N-1 edges: a tree).
C5_TreeInvariant ==
    (AfterFindMST /\ N >= 2) =>
        /\ DOMAIN mst = Verts
        /\ mst[0] = Nil
        /\ \A w \in 1 .. N - 1 :
              mst[w].w = w /\ mst[w].v \in Verts /\ mst[w].v # w
        /\ Cardinality(treeEdges(mst)) = N - 1
        /\ \A u \in Verts : reachable({u}, treeEdges(mst)) = Verts

\* C5 witness: a tree on four distinct points in which some vertex hangs
\* below a vertex other than the root
C5_Witness ==
    /\ AfterFindMST
    /\ N = 4
    /\ PositiveWeights
    /\ \E w \in 1 .. N - 1 : mst[w].v # 0

\* C8: with no point at all findMST returns normally with an empty tree.
C8_EmptyInputReturns ==
    (N = 0 /\ pc \notin {"findDistances", "findMST"}) =>
        (fault = "none" /\ mst = EmptySlice)

\* C2: for every valid query on the tree of findMST, findSP leaves
\* distTo[target] below the MaxFloat64 sentinel and plotSP does not report
\* "distance to vertex not found".
C2_TargetDistanceFound ==
    (AfterFindSP /\ QueryRan) =>
        /\ dspDistTo[target] < MaxFloat64
        /\ NotFound(target) \notin Range(status)

\* C3: whenever findSP has found the target, the chain of edgeTo walked from
\* the target back to the source is the simple path between them in the
\* tree, distTo[target] is the sum of the distance-matrix weights of its
\* edges, that sum equals the length got from the two walks to the root with
\* the common part removed, and the distance plotSP reports is that sum.
C3_PathIsTreePath ==
    (AfterFindSP /\ QueryRan /\ dspDistTo[target] < MaxFloat64) =>
        LET path == treePath(mst, source, target)
        IN /\ edgeChain(mst, edgeTo, source, target) = Reverse(path)
           /\ dspDistTo[target] = pathWeight(path, graph)
           /\ pathWeight(path, graph) = rootWalkLength(mst, graph, source, target)
           /\ pc = "done" => plot.DistanceSP = Fmt2(pathWeight(path, graph), 1)

\* C3 witness: plotSP has reported a path of three edges between two
\* vertices, neither of them the root
C3_Witness ==
    /\ pc = "done"
    /\ QueryRan
    /\ plot.DistanceSP # ""
    /\ source # 0
    /\ target # 0
    /\ Len(edgeChain(mst, edgeTo, source, target)) = 4

\* C4: for every pair a # b of valid vertices the queries (a, b) and (b, a)
\* on the tree of findMST both find their target, give the same length, and
\* give vertex sequences that are the reverse of each other.
C4_QuerySymmetry ==
    (pc = "plotMST" /\ QueryRan) =>
        LET rev == findSPRun(findMSTRun(graph), graph, target, source)
        IN /\ dspDistTo[target] < MaxFloat64
           /\ rev.distTo[source] < MaxFloat64
           /\ dspDistTo[target] = rev.distTo[source]
           /\ edgeChain(mst, edgeTo, source, target)
                = Reverse(edgeChain(rev.mst, rev.edgeTo, target, source))

\* C6: for integer form values findSP returns the invalid-endpoints error
\* exactly when source and target are not two different vertices of 0..N-1,
\* and then it has run no relaxation.
C6_InvalidEndpoints ==
    (/\ pc \in {"spLoop", "plotMST", "plotSP", "done"}
     /\ Atoi(request.sourcevert).err = ""
     /\ Atoi(request.targetvert).err = "") =>
        LET s == Atoi(request.sourcevert).val
            t == Atoi(request.targetvert).val
        IN /\ InvalidMessage \in Range(status)
                <=> ~(s \in Verts /\ t \in Verts /\ s # t)
           /\ InvalidMessage \in Range(status) =>
                /\ dspDistTo = EmptySlice
                /\ edgeTo = EmptySlice
                /\ adj = EmptySlice
                /\ pq = EmptyPQ

\* C6 witness: the query (N, 0) on at least two vertices was refused
C6_Witness ==
    /\ pc = "plotMST"
    /\ N >= 2
    /\ request = [sourcevert |-> ToString(N), targetvert |-> "0"]
    /\ InvalidMessage \in Range(status)

\* C7: whenever the query failed (findSP returned an error, or the target's
\* distance is still the sentinel) plotSP returns its error and writes
\* nothing: the grid is the one plotMST left, no cell carries a label of the
\* shortest path, and Source, Target, SourceLocation, TargetLocation and
\* DistanceSP stay empty.
C7_NoPartialResult ==
    (/\ ~QueryRan \/ dspDistTo[target] = MaxFloat64
     /\ \/ pc = "done"
        \/ fault \in {"plotSP: nil pointer dereference",
                      "plotSP: index out of range"}) =>
        /\ pc = "done"
        /\ status[Len(status)] = NotFound(target)
        /\ plot.Grid = plotMSTResult(mst, location).Grid
        /\ \A c \in DOMAIN plot.Grid :
              plot.Grid[c] \notin {"edgeSP", "vertexSP1", "vertexSP2"}
        /\ plot.Source = ""
        /\ plot.Target = ""
        /\ plot.SourceLocation = ""
        /\ plot.TargetLocation = ""
        /\ plot.DistanceSP = ""

\* C7 witness: a valid query whose target kept the sentinel distance went
\* through plotSP
C7_Witness ==
    /\ pc = "done"
    /\ QueryRan
    /\ dspDistTo[target] = MaxFloat64

\* C9: marking the start, source or target vertex writes only to those of
\* the five cells of its plus-shaped neighbourhood that lie inside the grid:
\* no write falls outside the Grid array and no highlight label lands in
\* another cell.
C9_HighlightInsideGrid ==
    /\ fault \notin {"plotMST: index out of range", "plotSP: index out of range"}
    /\ \A c \in DOMAIN plot.Grid :
          /\ plot.Grid[c] = "startvertexMSS" => c \in plusCells(loc(0))
          /\ plot.Grid[c] = "vertexSP1" => c \in plusCells(loc(source))
          /\ plot.Grid[c] = "vertexSP2" => c \in plusCells(loc(target))

\* C10: after plotMST every cell a vertex maps to is labeled vertex, or
\* carries the label of the start vertex, never edge.
C10_VertexOverEdge ==
    pc = "plotSP" =>
        \A v \in Verts :
            /\ pointCell(loc(v)) \in DOMAIN plot.Grid
            /\ plot.Grid[pointCell(loc(v))] \in {"vertex", "startvertexMSS"}

\* the squared Euclidean distance between the points of vertices i and j
squaredDistance(i, j) ==
    (loc(i)[1] - loc(j)[1]) * (loc(i)[1] - loc(j)[1])
    + (loc(i)[2] - loc(j)[2]) * (loc(i)[2] - loc(j)[2])

\* C11: for N >= 2 points findDistances leaves an N x N matrix that is
\* symmetric, whose off-diagonal entries are the non-negative Euclidean
\* distances of the points, and whose diagonal entries are the sentinel,
\* strictly greater than every off-diagonal entry.
C11_DistanceMatrix ==
    (pc # "findDistances" /\ N >= 2) =>
        /\ DOMAIN graph = Verts
        /\ \A i \in Verts : DOMAIN graph[i] = Verts
        /\ \A i, j \in Verts : i # j =>
              /\ graph[i][j] = graph[j][i]
              /\ graph[i][j] >= 0
              /\ graph[i][j] * graph[i][j] = squaredDistance(i, j)
        /\ \A i, j, k \in Verts : j # k =>
              /\ graph[i][i] = MaxFloat64
              /\ graph[i][i] > graph[j][k]

\* C11 witness: the matrix of four points, two of them joined by the
\* hypotenuse 13 of a right triangle
C11_Witness ==
    /\ pc = "findMST"
    /\ N = 4
    /\ \E i, j \in Verts : graph[i][j] = 13

C13_OnePopPerVertex ==
    (AfterFindMST /\ N >= 1) =>
        /\ Len(pops) = N
        /\ pops[1] = 0
        /\ \A v \in Verts : Cardinality({k \in DOMAIN pops : pops[k] = v}) = 1

\* C14: in findMST and in findSP the queue holds at most one entry per
\* vertex, and the distance of every entry is distTo of the vertex it names
\* (an improvement of distTo[w] changes the entry of w and no other, or
\* inserts one when w has none).
C14_OneEntryPerVertex ==
    /\ pc \in {"mstLoop", "spLoop"} =>
          \A j, k \in DOMAIN pq : j # k => pq[j].w # pq[k].w
    /\ pc = "mstLoop" => \A k \in DOMAIN pq : pq[k].distance = distTo[pq[k].w]
    /\ pc = "spLoop" => \A k \in DOMAIN pq : pq[k].distance = dspDistTo[pq[k].w]

\* C15: the iteration of findSP's main loop that pops the target relaxes
\* nothing: distTo, edgeTo and the edges stay as they are, the edge in
\* edgeTo[target] has target as its w endpoint, and findSP returns; and
\* whenever findSP returns the priority queue is empty.
C15_EarlyExit ==
    [][/\ (pc = "spLoop" /\ pqLen(pq) > 0 /\ heapPop(pq).item.w = target) =>
              /\ pc' = "plotMST"
              /\ dspDistTo' = dspDistTo
              /\ edgeTo' = edgeTo
              /\ mst' = mst
              /\ edgeTo'[target] # 0
              /\ mst'[edgeTo'[target]].w = target
       /\ (pc = "spLoop" /\ pc' # "spLoop") => pq' = EmptyPQ]_vars

\* C15 witness: the target is the minimum of a queue that holds other
\* vertices too, so the next pop is the target's and the rest is discarded
C15_Witness ==
    /\ pc = "spLoop"
    /\ pqLen(pq) >= 2
    /\ heapPop(pq).item.w = target

\* the structure the queue q must have: keys 0 .. Len-1, every item's index
\* equal to its key, no item's distance below that of its parent slot
heapInvariant(q) ==
    /\ DOMAIN q = 0 .. pqLen(q) - 1
    /\ \A k \in DOMAIN q : q[k].index = k
    /\ \A k \in DOMAIN q : k >= 1 => q[(k - 1) \div 2].distance <= q[k].distance

\* heap.Pop on q returns a minimal item with index -1 and leaves a
\* well-formed queue of the other items
popInvariant(q) ==
    LET p == heapPop(q)
    IN /\ p.item.index = -1
       /\ \A k \in DOMAIN q : p.item.distance <= q[k].distance
       /\ pqLen(p.pq) = pqLen(q) - 1
       /\ heapInvariant(p.pq)

\* C16: after heap.Init, after every heap.Push, heap.Pop and update the keys
\* of the queue are 0 .. Len-1, every item's index is its key and the
\* min-heap order holds between each slot and its parent; heap.Pop returns
\* an item of minimal distance and sets its index to -1.
C16_HeapStructure ==
    /\ pc \in {"mstLoop", "spLoop"} => heapInvariant(pq)
    /\ (pc \in {"mstLoop", "spLoop"} /\ pqLen(pq) > 0) => popInvariant(pq)
    /\ (pc = "mstLoop" /\ pqLen(pq) > 0) =>
          LET p == heapPop(pq)
              v == p.item.w
              st == [mst |-> mst, marked |-> [marked EXCEPT ![v] = TRUE],
                     distTo |-> distTo, pq |-> p.pq]
          IN \A k \in 0 .. N : heapInvariant(visitUpTo(st, graph, v, 0, k).pq)
    /\ (pc = "spLoop" /\ pqLen(pq) > 0 /\ heapPop(pq).item.w # target) =>
          LET p == heapPop(pq)
              v == p.item.w
              st == [mst |-> mst, edgeTo |-> edgeTo, distTo |-> dspDistTo,
                     pq |-> p.pq, returned |-> FALSE]
          IN \A n \in 0 .. Len(adj[v]) :
                heapInvariant(relaxUpTo(st, graph, adj, v, 1, n).pq)

\* C16 witness: in findMST the queue holds three items and one of them has
\* had its distance changed by update since it was pushed
C16_Witness ==
    /\ pc = "mstLoop"
    /\ pqLen(pq) >= 3
    /\ \E k \in DOMAIN pq : pq[k].distance # graph[pq[k].v][pq[k].w]

\* C17: on N >= 1 points the main loop of findMST terminates, and when it
\* has, the queue is empty and every vertex is marked.
C17_LoopTerminates ==
    (pc = "mstLoop") ~>
        (/\ pc = "findSP"
         /\ pq = EmptyPQ
         /\ \A v \in Verts : marked[v])

\* C17 witness: findMST returned on four vertices after more pops than
\* there are vertices
C17_Witness ==
    /\ pc = "findSP"
    /\ N = 4
    /\ Len(pops) > N
    /\ pq = EmptyPQ

====
